---- MODULE Spec2Model ----
(***************************************************************************)
(* Model of primitives/arkworks/src/{bls12_381, bw6_761, ed_on_bls12_377,  *)
(* ed_on_bls12_381}.rs: the host entry points that decode byte buffers     *)
(* with ark-serialize (uncompressed, unvalidated), and serialize a result. *)
(*                                                                         *)
(* Buffers are sequences of bytes 0..MaxByte.  Widths are scaled down: a   *)
(* base-field or scalar-field element takes FieldBytes bytes and a u64     *)
(* limb takes LimbBytes bytes (48/32/96 and 8 in the real curves); the     *)
(* structure of every encoding (little-endian digits, field elements in    *)
(* sequence, the infinity flag in the last byte of a short-Weierstrass     *)
(* point, the u64 length prefix of a Vec<u64>) is the one of ark-serialize.*)
(***************************************************************************)
EXTENDS Integers, Sequences, FiniteSets, TLC

VARIABLES entry, args, outcome, fam, sa, sb, lhs, rhs

vars == <<entry, args, outcome, fam, sa, sb, lhs, rhs>>

\* ------------------------------------------------------------- bounds
MaxByte == 3
FieldBytes == 1
LimbBytes == 1
MaxSeq == 2

Radix == MaxByte + 1
\* The base-field modulus and the scalar-field (= group) order of the scaled
\* curves.  Both are at most MaxByte, so that a top byte of MaxByte is free to
\* carry the infinity flag and an out-of-range field element is encodable.
FqModulus == MaxByte
FrModulus == MaxByte

\* ------------------------------------------------------ bytes, cursor
Take(b, n) == SubSeq(b, 1, n)
Drop(b, n) == SubSeq(b, n + 1, Len(b))

RECURSIVE LEValue(_)
LEValue(b) == IF b = <<>> THEN 0 ELSE Head(b) + Radix * LEValue(Tail(b))

RECURSIVE LEBytes(_, _)
LEBytes(v, w) == IF w = 0 THEN <<>> ELSE <<v % Radix>> \o LEBytes(v \div Radix, w - 1)

RECURSIVE Concat(_)
Concat(ss) == IF ss = <<>> THEN <<>> ELSE Head(ss) \o Concat(Tail(ss))

DecOk(v) == [ok |-> TRUE, val |-> v]
DecErr(e) == [ok |-> FALSE, err |-> e]

\* read_exact on a Cursor over b: n bytes are available from the front.  A
\* Cursor is never checked for being exhausted after the read.
HasBytesExact(b, n) == Len(b) = n
HasBytes(b, n) == Len(b) >= n

\* --------------------------------------------------------- the curves
BlsG1 == [fam |-> "bls12_381", grp |-> "g1", model |-> "sw", deg |-> 1]
BlsG2 == [fam |-> "bls12_381", grp |-> "g2", model |-> "sw", deg |-> 2]
Bw6G1 == [fam |-> "bw6_761", grp |-> "g1", model |-> "sw", deg |-> 1]
Bw6G2 == [fam |-> "bw6_761", grp |-> "g2", model |-> "sw", deg |-> 1]
Ed377 == [fam |-> "ed_on_bls12_377", grp |-> "te", model |-> "te", deg |-> 1]
JubjubSW == [fam |-> "ed_on_bls12_381", grp |-> "sw", model |-> "sw", deg |-> 1]
JubjubTE == [fam |-> "ed_on_bls12_381", grp |-> "te", model |-> "te", deg |-> 1]
BlsFq12 == [fam |-> "bls12_381", deg |-> 12]
Bw6Fq6 == [fam |-> "bw6_761", deg |-> 6]

\* ------------------------------------------------------- field codec
\* Fp::deserialize_with_flags without flags: FieldBytes little-endian bytes,
\* rejected (InvalidData) when the value is not below the modulus.
FpDecodeUnchecked(b, modulus) ==
    IF ~HasBytes(b, FieldBytes) THEN DecErr("IoError")
    ELSE DecOk(LEValue(Take(b, FieldBytes)))
FpDecode(b, modulus) ==
    IF ~HasBytes(b, FieldBytes) THEN DecErr("IoError")
    ELSE LET v == LEValue(Take(b, FieldBytes))
         IN IF v >= modulus THEN DecErr("InvalidData") ELSE DecOk(v)

FpEncode(v) == LEBytes(v, FieldBytes)

\* An extension-field element (deg base-field coefficients in sequence).
ExtWidth(deg) == deg * FieldBytes
ExtDecode(b, deg) ==
    LET c == [i \in 1..deg |-> FpDecode(Drop(b, (i - 1) * FieldBytes), FqModulus)]
        bad == {i \in 1..deg : ~c[i].ok}
    IN IF bad = {} THEN DecOk([i \in 1..deg |-> c[i].val])
       ELSE DecErr(c[CHOOSE i \in bad : \A j \in bad : i <= j].err)
ExtEncode(c) == Concat([i \in DOMAIN c |-> FpEncode(c[i])])

ExtZero(deg) == [i \in 1..deg |-> 0]
ExtOne(deg) == [i \in 1..deg |-> IF i = 1 THEN 1 ELSE 0]
ExtOf(v, deg) == [i \in 1..deg |-> IF i = 1 THEN v ELSE 0]

\* ------------------------------------------------------- point codec
PointWidth(curve) == 2 * ExtWidth(curve.deg)

Identity(curve, rep) ==
    [ty |-> "point", curve |-> curve, rep |-> rep, inf |-> curve.model = "sw",
     x |-> ExtZero(curve.deg),
     y |-> IF curve.model = "sw" THEN ExtZero(curve.deg) ELSE ExtOne(curve.deg)]

NewUnchecked(curve, rep, x, y) ==
    [ty |-> "point", curve |-> curve, rep |-> rep, inf |-> FALSE, x |-> x, y |-> y]

\* The point k*G of the scaled curve (k in 0..FrModulus-1); k = 0 is the
\* identity: the point at infinity of a short-Weierstrass curve, (0, 1) of a
\* twisted-Edwards curve.
PointOf(curve, rep, k) ==
    IF k = 0 THEN Identity(curve, rep)
    ELSE NewUnchecked(curve, rep, ExtOf(k, curve.deg),
                      ExtOf((k * k) % FqModulus, curve.deg))

Generator(curve, rep) == PointOf(curve, rep, 1)

\* Self::check() of a decoded point: it is a point of the group.
IsOnCurve(p) == \E k \in 0..(FrModulus - 1) : p = PointOf(p.curve, p.rep, k)

\* Affine::deserialize_with_mode(cursor, Compress::No, validate): x, then y; a
\* short-Weierstrass y carries the infinity flag in its last byte.  With
\* Validate::No there is no on-curve check.  A Projective is read as an Affine
\* and converted.
PointDecode(curve, rep, validate, b) ==
    LET w == ExtWidth(curve.deg)
        x == ExtDecode(b, curve.deg)
        yraw == Take(Drop(b, w), w)
        flagged == curve.model = "sw" /\ yraw[w] = MaxByte
        y == ExtDecode(IF flagged THEN [yraw EXCEPT ![w] = 0] ELSE yraw, curve.deg)
        point == NewUnchecked(curve, rep, x.val, y.val)
    IN IF ~x.ok THEN x
       ELSE IF ~HasBytes(Drop(b, w), w) THEN DecErr("IoError")
       ELSE IF ~y.ok THEN y
       ELSE IF flagged THEN DecOk(Identity(curve, rep))
       ELSE IF validate /\ ~IsOnCurve(point) THEN DecErr("InvalidData")
       ELSE DecOk(point)

\* CanonicalSerialize, uncompressed; a Projective is written as its Affine.
PointEncode(p) ==
    LET w == ExtWidth(p.curve.deg)
        yb == ExtEncode(p.y)
    IN ExtEncode(p.x) \o (IF p.inf THEN [yb EXCEPT ![w] = MaxByte] ELSE yb)

\* ------------------------------------------------------ scalar codecs
\* <Config as CurveConfig>::ScalarField::deserialize_with_mode: one field
\* element of the scalar field.
FrDecode(b) == FpDecode(b, FrModulus)
FrEncode(s) == FpEncode(s)

\* Vec::<u64>::deserialize_with_mode: a u64 length, then that many u64 limbs;
\* every limb value is accepted.
U64Decode(b) ==
    IF ~HasBytes(b, LimbBytes) THEN DecErr("IoError")
    ELSE DecOk(LEValue(Take(b, LimbBytes)))
VecU64Decode(b) ==
    LET len == U64Decode(b)
        limb(i) == U64Decode(Drop(b, i * LimbBytes))
    IN IF ~len.ok THEN len
       ELSE IF \E i \in 1..len.val : ~limb(i).ok THEN DecErr("IoError")
       ELSE DecOk([i \in 1..len.val |-> limb(i).val])
VecU64Encode(limbs) ==
    LEBytes(Len(limbs), LimbBytes) \o Concat([i \in DOMAIN limbs |-> LEBytes(limbs[i], LimbBytes)])

\* ------------------------------------------------------- target field
TargetZero(field) == [ty |-> "field", field |-> field, rep |-> "field", c |-> ExtZero(field.deg)]
TargetOne(field) == [ty |-> "field", field |-> field, rep |-> "field", c |-> ExtOne(field.deg)]
TargetDecode(field, b) ==
    LET c == ExtDecode(b, field.deg)
    IN IF c.ok THEN DecOk([ty |-> "field", field |-> field, rep |-> "field", c |-> c.val]) ELSE c
TargetEncode(t) == ExtEncode(t.c)

\* ------------------------------------------------------------ outcomes
NotCalled == [kind |-> "pending"]
Returned(rep, buf) == [kind |-> "ok", rep |-> rep, buf |-> buf]
\* Result::unwrap() on Err(e): the call unwinds; nothing is returned.
Panic(e) == [kind |-> "panic", err |-> e]

\* utils::serialize_result: the canonical uncompressed encoding of the value.
serialize_result(result) ==
    Returned(result.rep,
             IF result.ty = "point" THEN PointEncode(result) ELSE TargetEncode(result))

\* vec.iter().map(|a| decode(a).unwrap()).collect(): the decoded elements in
\* order, or the first element's error.
FirstErr(ds) == ds[CHOOSE i \in DOMAIN ds : ~ds[i].ok /\ \A j \in DOMAIN ds : ~ds[j].ok => i <= j].err
AllOk(ds) == \A i \in DOMAIN ds : ds[i].ok

\* ------------------------------------------------- the entry points
\* ---- bls12_381.rs

\* bls12_381_multi_miller_loop with the two decodes' groups exchanged.
bls12_381_multi_miller_loop_swapped(a_vec, b_vec) ==
    LET _g1 == [i \in DOMAIN a_vec |-> PointDecode(BlsG2, "affine", TRUE, a_vec[i])]
        _g2 == [i \in DOMAIN b_vec |-> PointDecode(BlsG1, "affine", TRUE, b_vec[i])]
        result == TargetZero(BlsFq12)
    IN IF ~AllOk(_g1) THEN Panic(FirstErr(_g1))
       ELSE IF ~AllOk(_g2) THEN Panic(FirstErr(_g2))
       ELSE serialize_result(result)

bls12_381_multi_miller_loop(a_vec, b_vec) ==
    LET _g1 == [i \in DOMAIN a_vec |-> PointDecode(BlsG1, "affine", TRUE, a_vec[i])]
        _g2 == [i \in DOMAIN b_vec |-> PointDecode(BlsG2, "affine", TRUE, b_vec[i])]
        result == TargetZero(BlsFq12)
    IN IF ~AllOk(_g1) THEN Panic(FirstErr(_g1))
       ELSE IF ~AllOk(_g2) THEN Panic(FirstErr(_g2))
       ELSE serialize_result(result)

bls12_381_final_exponentiation(target) ==
    LET _target == TargetDecode(BlsFq12, target)
        result == TargetZero(BlsFq12)
    IN IF ~_target.ok THEN Panic(_target.err)
       ELSE serialize_result(result)

bls12_381_mul_projective_g2(base, scalar) ==
    LET _base == PointDecode(BlsG2, "projective", FALSE, base)
        _scalar == VecU64Decode(scalar)
        result == Generator(BlsG2, "projective")
    IN IF ~_base.ok THEN Panic(_base.err)
       ELSE IF ~_scalar.ok THEN Panic(_scalar.err)
       ELSE serialize_result(result)

bls12_381_mul_projective_g1(base, scalar) ==
    LET _base == PointDecode(BlsG1, "projective", FALSE, base)
        _scalar == VecU64Decode(scalar)
        result == Generator(BlsG1, "projective")
    IN IF ~_base.ok THEN Panic(_base.err)
       ELSE IF ~_scalar.ok THEN Panic(_scalar.err)
       ELSE serialize_result(result)

bls12_381_mul_affine_g1(base, scalar) ==
    LET _base == PointDecode(BlsG1, "affine", FALSE, base)
        _scalar == VecU64Decode(scalar)
        result == Generator(BlsG1, "projective")
    IN IF ~_base.ok THEN Panic(_base.err)
       ELSE IF ~_scalar.ok THEN Panic(_scalar.err)
       ELSE serialize_result(result)

bls12_381_mul_affine_g2(base, scalar) ==
    LET _base == PointDecode(BlsG2, "affine", FALSE, base)
        _scalar == VecU64Decode(scalar)
        result == Generator(BlsG2, "projective")
    IN IF ~_base.ok THEN Panic(_base.err)
       ELSE IF ~_scalar.ok THEN Panic(_scalar.err)
       ELSE serialize_result(result)

bls12_381_msm_g1(bases, scalars) ==
    LET _bases == [i \in DOMAIN bases |-> PointDecode(BlsG1, "affine", FALSE, bases[i])]
        _scalars == [i \in DOMAIN scalars |-> FrDecode(scalars[i])]
        result == Generator(BlsG1, "projective")
    IN IF ~AllOk(_bases) THEN Panic(FirstErr(_bases))
       ELSE IF ~AllOk(_scalars) THEN Panic(FirstErr(_scalars))
       ELSE serialize_result(result)

bls12_381_msm_g2(bases, scalars) ==
    LET _bases == [i \in DOMAIN bases |-> PointDecode(BlsG2, "affine", FALSE, bases[i])]
        _scalars == [i \in DOMAIN scalars |-> FrDecode(scalars[i])]
        result == Generator(BlsG2, "projective")
    IN IF ~AllOk(_bases) THEN Panic(FirstErr(_bases))
       ELSE IF ~AllOk(_scalars) THEN Panic(FirstErr(_scalars))
       ELSE serialize_result(result)

\* ---- bw6_761.rs

bw6_761_multi_miller_loop(a_vec, b_vec) ==
    LET _g1 == [i \in DOMAIN a_vec |-> PointDecode(Bw6G1, "affine", FALSE, a_vec[i])]
        _g2 == [i \in DOMAIN b_vec |-> PointDecode(Bw6G2, "affine", FALSE, b_vec[i])]
        result == TargetZero(Bw6Fq6)
    IN IF ~AllOk(_g1) THEN Panic(FirstErr(_g1))
       ELSE IF ~AllOk(_g2) THEN Panic(FirstErr(_g2))
       ELSE serialize_result(result)

bw6_761_final_exponentiation(target) ==
    LET _target == TargetDecode(Bw6Fq6, target)
        result == TargetZero(Bw6Fq6)
    IN IF ~_target.ok THEN Panic(_target.err)
       ELSE serialize_result(result)

bw6_761_mul_projective_g2(base, scalar) ==
    LET _base == PointDecode(Bw6G2, "projective", FALSE, base)
        _scalar == VecU64Decode(scalar)
        result == Generator(Bw6G2, "projective")
    IN IF ~_base.ok THEN Panic(_base.err)
       ELSE IF ~_scalar.ok THEN Panic(_scalar.err)
       ELSE serialize_result(result)

bw6_761_mul_projective_g1(base, scalar) ==
    LET _base == PointDecode(Bw6G1, "projective", FALSE, base)
        _scalar == VecU64Decode(scalar)
        result == Generator(Bw6G1, "projective")
    IN IF ~_base.ok THEN Panic(_base.err)
       ELSE IF ~_scalar.ok THEN Panic(_scalar.err)
       ELSE serialize_result(result)

bw6_761_mul_affine_g1(base, scalar) ==
    LET _base == PointDecode(Bw6G1, "affine", FALSE, base)
        _scalar == VecU64Decode(scalar)
        result == Generator(Bw6G1, "affine")
    IN IF ~_base.ok THEN Panic(_base.err)
       ELSE IF ~_scalar.ok THEN Panic(_scalar.err)
       ELSE serialize_result(result)

bw6_761_mul_affine_g2(base, scalar) ==
    LET _base == PointDecode(Bw6G2, "affine", FALSE, base)
        _scalar == VecU64Decode(scalar)
        result == Generator(Bw6G2, "affine")
    IN IF ~_base.ok THEN Panic(_base.err)
       ELSE IF ~_scalar.ok THEN Panic(_scalar.err)
       ELSE serialize_result(result)

bw6_761_msm_g1(bases, scalars) ==
    LET _bases == [i \in DOMAIN bases |-> PointDecode(Bw6G1, "affine", FALSE, bases[i])]
        _scalars == [i \in DOMAIN scalars |-> FrDecode(scalars[i])]
        result == Generator(Bw6G1, "projective")
    IN IF ~AllOk(_bases) THEN Panic(FirstErr(_bases))
       ELSE IF ~AllOk(_scalars) THEN Panic(FirstErr(_scalars))
       ELSE serialize_result(result)

bw6_761_msm_g2(bases, scalars) ==
    LET _bases == [i \in DOMAIN bases |-> PointDecode(Bw6G2, "affine", FALSE, bases[i])]
        _scalars == [i \in DOMAIN scalars |-> FrDecode(scalars[i])]
        result == Generator(Bw6G2, "projective")
    IN IF ~AllOk(_bases) THEN Panic(FirstErr(_bases))
       ELSE IF ~AllOk(_scalars) THEN Panic(FirstErr(_scalars))
       ELSE serialize_result(result)

\* ---- ed_on_bls12_377.rs

ed_on_bls12_377_mul_projective(base, scalar) ==
    LET _base == PointDecode(Ed377, "projective", FALSE, base)
        _scalar == VecU64Decode(scalar)
        result == Generator(Ed377, "projective")
    IN IF ~_base.ok THEN Panic(_base.err)
       ELSE IF ~_scalar.ok THEN Panic(_scalar.err)
       ELSE serialize_result(result)

ed_on_bls12_377_mul_affine(base, scalar) ==
    LET _base == PointDecode(Ed377, "affine", FALSE, base)
        _scalar == VecU64Decode(scalar)
        result == Generator(Ed377, "projective")
    IN IF ~_base.ok THEN Panic(_base.err)
       ELSE IF ~_scalar.ok THEN Panic(_scalar.err)
       ELSE serialize_result(result)

ed_on_bls12_377_msm(bases, scalars) ==
    LET _bases == [i \in DOMAIN bases |-> PointDecode(Ed377, "affine", FALSE, bases[i])]
        _scalars == [i \in DOMAIN scalars |-> FrDecode(scalars[i])]
        result == Generator(Ed377, "projective")
    IN IF ~AllOk(_bases) THEN Panic(FirstErr(_bases))
       ELSE IF ~AllOk(_scalars) THEN Panic(FirstErr(_scalars))
       ELSE serialize_result(result)

\* ---- ed_on_bls12_381.rs

ed_on_bls12_381_sw_mul_projective(base, scalar) ==
    LET _base == PointDecode(JubjubSW, "projective", FALSE, base)
        _scalar == VecU64Decode(scalar)
        result == Generator(JubjubSW, "projective")
    IN IF ~_base.ok THEN Panic(_base.err)
       ELSE IF ~_scalar.ok THEN Panic(_scalar.err)
       ELSE serialize_result(result)

ed_on_bls12_381_sw_mul_affine(base, scalar) ==
    LET _base == PointDecode(JubjubSW, "affine", FALSE, base)
        _scalar == VecU64Decode(scalar)
        result == Generator(JubjubSW, "projective")
    IN IF ~_base.ok THEN Panic(_base.err)
       ELSE IF ~_scalar.ok THEN Panic(_scalar.err)
       ELSE serialize_result(result)

ed_on_bls12_381_te_mul_projective(base, scalar) ==
    LET _base == PointDecode(JubjubTE, "projective", FALSE, base)
        _scalar == VecU64Decode(scalar)
        result == Generator(JubjubTE, "projective")
    IN IF ~_base.ok THEN Panic(_base.err)
       ELSE IF ~_scalar.ok THEN Panic(_scalar.err)
       ELSE serialize_result(result)

ed_on_bls12_381_te_mul_affine(base, scalar) ==
    LET _base == PointDecode(JubjubTE, "affine", FALSE, base)
        _scalar == VecU64Decode(scalar)
        result == Generator(JubjubTE, "projective")
    IN IF ~_base.ok THEN Panic(_base.err)
       ELSE IF ~_scalar.ok THEN Panic(_scalar.err)
       ELSE serialize_result(result)

ed_on_bls12_381_te_msm(bases, scalars) ==
    LET _bases == [i \in DOMAIN bases |-> PointDecode(JubjubTE, "affine", FALSE, bases[i])]
        _scalars == [i \in DOMAIN scalars |-> FrDecode(scalars[i])]
        result == Generator(JubjubTE, "projective")
    IN IF ~AllOk(_bases) THEN Panic(FirstErr(_bases))
       ELSE IF ~AllOk(_scalars) THEN Panic(FirstErr(_scalars))
       ELSE serialize_result(result)

ed_on_bls12_381_sw_msm(bases, scalars) ==
    LET _bases == [i \in DOMAIN bases |-> PointDecode(JubjubSW, "affine", FALSE, bases[i])]
        _scalars == [i \in DOMAIN scalars |-> FrDecode(scalars[i])]
        result == Generator(JubjubSW, "projective")
    IN IF ~AllOk(_bases) THEN Panic(FirstErr(_bases))
       ELSE IF ~AllOk(_scalars) THEN Panic(FirstErr(_scalars))
       ELSE serialize_result(result)

\* --------------------------------------------- the entry-point table
\* The signature of each entry point: its operation and what each argument
\* buffer (or each element of each argument sequence) is decoded as.
Sig(e) ==
    CASE e = "bls12_381_multi_miller_loop" ->
           [op |-> "mml", kinds |-> <<[k |-> "point", curve |-> BlsG1, validate |-> TRUE], [k |-> "point", curve |-> BlsG2, validate |-> TRUE]>>]
      [] e = "bls12_381_final_exponentiation" ->
           [op |-> "fexp", kinds |-> <<[k |-> "target", field |-> BlsFq12]>>]
      [] e = "bls12_381_mul_projective_g2" ->
           [op |-> "mul", kinds |-> <<[k |-> "point", curve |-> BlsG2, validate |-> FALSE], [k |-> "vec"]>>]
      [] e = "bls12_381_mul_projective_g1" ->
           [op |-> "mul", kinds |-> <<[k |-> "point", curve |-> BlsG1, validate |-> FALSE], [k |-> "vec"]>>]
      [] e = "bls12_381_mul_affine_g1" ->
           [op |-> "mul", kinds |-> <<[k |-> "point", curve |-> BlsG1, validate |-> FALSE], [k |-> "vec"]>>]
      [] e = "bls12_381_mul_affine_g2" ->
           [op |-> "mul", kinds |-> <<[k |-> "point", curve |-> BlsG2, validate |-> FALSE], [k |-> "vec"]>>]
      [] e = "bls12_381_msm_g1" ->
           [op |-> "msm", kinds |-> <<[k |-> "point", curve |-> BlsG1, validate |-> FALSE], [k |-> "fr"]>>]
      [] e = "bls12_381_msm_g2" ->
           [op |-> "msm", kinds |-> <<[k |-> "point", curve |-> BlsG2, validate |-> FALSE], [k |-> "fr"]>>]
      [] e = "bw6_761_multi_miller_loop" ->
           [op |-> "mml", kinds |-> <<[k |-> "point", curve |-> Bw6G1, validate |-> FALSE], [k |-> "point", curve |-> Bw6G2, validate |-> FALSE]>>]
      [] e = "bw6_761_final_exponentiation" ->
           [op |-> "fexp", kinds |-> <<[k |-> "target", field |-> Bw6Fq6]>>]
      [] e = "bw6_761_mul_projective_g2" ->
           [op |-> "mul", kinds |-> <<[k |-> "point", curve |-> Bw6G2, validate |-> FALSE], [k |-> "vec"]>>]
      [] e = "bw6_761_mul_projective_g1" ->
           [op |-> "mul", kinds |-> <<[k |-> "point", curve |-> Bw6G1, validate |-> FALSE], [k |-> "vec"]>>]
      [] e = "bw6_761_mul_affine_g1" ->
           [op |-> "mul", kinds |-> <<[k |-> "point", curve |-> Bw6G1, validate |-> FALSE], [k |-> "vec"]>>]
      [] e = "bw6_761_mul_affine_g2" ->
           [op |-> "mul", kinds |-> <<[k |-> "point", curve |-> Bw6G2, validate |-> FALSE], [k |-> "vec"]>>]
      [] e = "bw6_761_msm_g1" ->
           [op |-> "msm", kinds |-> <<[k |-> "point", curve |-> Bw6G1, validate |-> FALSE], [k |-> "fr"]>>]
      [] e = "bw6_761_msm_g2" ->
           [op |-> "msm", kinds |-> <<[k |-> "point", curve |-> Bw6G2, validate |-> FALSE], [k |-> "fr"]>>]
      [] e = "ed_on_bls12_377_mul_projective" ->
           [op |-> "mul", kinds |-> <<[k |-> "point", curve |-> Ed377, validate |-> FALSE], [k |-> "vec"]>>]
      [] e = "ed_on_bls12_377_mul_affine" ->
           [op |-> "mul", kinds |-> <<[k |-> "point", curve |-> Ed377, validate |-> FALSE], [k |-> "vec"]>>]
      [] e = "ed_on_bls12_377_msm" ->
           [op |-> "msm", kinds |-> <<[k |-> "point", curve |-> Ed377, validate |-> FALSE], [k |-> "fr"]>>]
      [] e = "ed_on_bls12_381_sw_mul_projective" ->
           [op |-> "mul", kinds |-> <<[k |-> "point", curve |-> JubjubSW, validate |-> FALSE], [k |-> "vec"]>>]
      [] e = "ed_on_bls12_381_sw_mul_affine" ->
           [op |-> "mul", kinds |-> <<[k |-> "point", curve |-> JubjubSW, validate |-> FALSE], [k |-> "vec"]>>]
      [] e = "ed_on_bls12_381_te_mul_projective" ->
           [op |-> "mul", kinds |-> <<[k |-> "point", curve |-> JubjubTE, validate |-> FALSE], [k |-> "vec"]>>]
      [] e = "ed_on_bls12_381_te_mul_affine" ->
           [op |-> "mul", kinds |-> <<[k |-> "point", curve |-> JubjubTE, validate |-> FALSE], [k |-> "vec"]>>]
      [] e = "ed_on_bls12_381_te_msm" ->
           [op |-> "msm", kinds |-> <<[k |-> "point", curve |-> JubjubTE, validate |-> FALSE], [k |-> "fr"]>>]
      [] e = "ed_on_bls12_381_sw_msm" ->
           [op |-> "msm", kinds |-> <<[k |-> "point", curve |-> JubjubSW, validate |-> FALSE], [k |-> "fr"]>>]

EntryPoints ==
    {"bls12_381_multi_miller_loop",
     "bls12_381_final_exponentiation",
     "bls12_381_mul_projective_g2",
     "bls12_381_mul_projective_g1",
     "bls12_381_mul_affine_g1",
     "bls12_381_mul_affine_g2",
     "bls12_381_msm_g1",
     "bls12_381_msm_g2",
     "bw6_761_multi_miller_loop",
     "bw6_761_final_exponentiation",
     "bw6_761_mul_projective_g2",
     "bw6_761_mul_projective_g1",
     "bw6_761_mul_affine_g1",
     "bw6_761_mul_affine_g2",
     "bw6_761_msm_g1",
     "bw6_761_msm_g2",
     "ed_on_bls12_377_mul_projective",
     "ed_on_bls12_377_mul_affine",
     "ed_on_bls12_377_msm",
     "ed_on_bls12_381_sw_mul_projective",
     "ed_on_bls12_381_sw_mul_affine",
     "ed_on_bls12_381_te_mul_projective",
     "ed_on_bls12_381_te_mul_affine",
     "ed_on_bls12_381_te_msm",
     "ed_on_bls12_381_sw_msm"}

\* The call of entry point e on the argument tuple a.
Apply(e, a) ==
    CASE e = "bls12_381_multi_miller_loop" -> bls12_381_multi_miller_loop(a[1], a[2])
      [] e = "bls12_381_final_exponentiation" -> bls12_381_final_exponentiation(a[1])
      [] e = "bls12_381_mul_projective_g2" -> bls12_381_mul_projective_g2(a[1], a[2])
      [] e = "bls12_381_mul_projective_g1" -> bls12_381_mul_projective_g1(a[1], a[2])
      [] e = "bls12_381_mul_affine_g1" -> bls12_381_mul_affine_g1(a[1], a[2])
      [] e = "bls12_381_mul_affine_g2" -> bls12_381_mul_affine_g2(a[1], a[2])
      [] e = "bls12_381_msm_g1" -> bls12_381_msm_g1(a[1], a[2])
      [] e = "bls12_381_msm_g2" -> bls12_381_msm_g2(a[1], a[2])
      [] e = "bw6_761_multi_miller_loop" -> bw6_761_multi_miller_loop(a[1], a[2])
      [] e = "bw6_761_final_exponentiation" -> bw6_761_final_exponentiation(a[1])
      [] e = "bw6_761_mul_projective_g2" -> bw6_761_mul_projective_g2(a[1], a[2])
      [] e = "bw6_761_mul_projective_g1" -> bw6_761_mul_projective_g1(a[1], a[2])
      [] e = "bw6_761_mul_affine_g1" -> bw6_761_mul_affine_g1(a[1], a[2])
      [] e = "bw6_761_mul_affine_g2" -> bw6_761_mul_affine_g2(a[1], a[2])
      [] e = "bw6_761_msm_g1" -> bw6_761_msm_g1(a[1], a[2])
      [] e = "bw6_761_msm_g2" -> bw6_761_msm_g2(a[1], a[2])
      [] e = "ed_on_bls12_377_mul_projective" -> ed_on_bls12_377_mul_projective(a[1], a[2])
      [] e = "ed_on_bls12_377_mul_affine" -> ed_on_bls12_377_mul_affine(a[1], a[2])
      [] e = "ed_on_bls12_377_msm" -> ed_on_bls12_377_msm(a[1], a[2])
      [] e = "ed_on_bls12_381_sw_mul_projective" -> ed_on_bls12_381_sw_mul_projective(a[1], a[2])
      [] e = "ed_on_bls12_381_sw_mul_affine" -> ed_on_bls12_381_sw_mul_affine(a[1], a[2])
      [] e = "ed_on_bls12_381_te_mul_projective" -> ed_on_bls12_381_te_mul_projective(a[1], a[2])
      [] e = "ed_on_bls12_381_te_mul_affine" -> ed_on_bls12_381_te_mul_affine(a[1], a[2])
      [] e = "ed_on_bls12_381_te_msm" -> ed_on_bls12_381_te_msm(a[1], a[2])
      [] e = "ed_on_bls12_381_sw_msm" -> ed_on_bls12_381_sw_msm(a[1], a[2])

\* ----------------------------------------------------- the call inputs
\* The buffers a caller passes: well-formed encodings, a truncated one, one
\* with a trailing byte, one with an out-of-range field element, and (for
\* points) one whose coordinates are not on the curve.
Shorten(b) == Take(b, Len(b) - 1)
Lengthen(b) == b \o <<0>>

OffCurve(curve) == NewUnchecked(curve, "affine", ExtOf(1, curve.deg), ExtZero(curve.deg))

GoodPointBufs(curve) == {PointEncode(PointOf(curve, "affine", k)) : k \in {0, 1, 2}}
OddPointBufs(curve) ==
    LET g == PointEncode(Generator(curve, "affine"))
    IN {Shorten(g), Lengthen(g), [g EXCEPT ![1] = MaxByte], PointEncode(OffCurve(curve))}

GoodFrBufs == {FrEncode(s) : s \in {0, 1, 2}}
OddFrBufs == {Shorten(FrEncode(1)), Lengthen(FrEncode(1)), LEBytes(FrModulus, FieldBytes)}

VecBufs ==
    {VecU64Encode(<<s>>) : s \in {0, 1, 2, FrModulus}}
        \cup {VecU64Encode(<<>>), LEBytes(1, LimbBytes), LEBytes(2, LimbBytes),
              Lengthen(VecU64Encode(<<1>>)), Shorten(VecU64Encode(<<1>>)), <<>>}

TargetBufs(field) ==
    LET z == TargetEncode(TargetZero(field))
    IN {z, TargetEncode(TargetOne(field)), Shorten(z), Lengthen(z), [z EXCEPT ![Len(z)] = MaxByte]}

\* What a single-buffer argument of kind k is drawn from.
Bufs(k) ==
    CASE k.k = "point" -> GoodPointBufs(k.curve) \cup OddPointBufs(k.curve)
      [] k.k = "fr" -> GoodFrBufs \cup OddFrBufs
      [] k.k = "vec" -> VecBufs
      [] k.k = "target" -> TargetBufs(k.field)

\* What the elements of a sequence argument of kind k are drawn from.
ElemBufs(k) ==
    CASE k.k = "point" ->
             LET g == PointEncode(Generator(k.curve, "affine"))
             IN {g, PointEncode(PointOf(k.curve, "affine", 2)), Shorten(g), Lengthen(g),
                 PointEncode(OffCurve(k.curve))}
      [] k.k = "fr" ->
             {FrEncode(1), FrEncode(2), Shorten(FrEncode(1)), Lengthen(FrEncode(1)),
              LEBytes(FrModulus, FieldBytes)}

SeqsUpTo(S, n) == UNION {[1..m -> S] : m \in 0..n}

Batched(e) == Sig(e).op \in {"mml", "msm"}

ArgsOf(e) ==
    LET k == Sig(e).kinds
    IN IF Batched(e)
       THEN {<<a, b>> : a \in SeqsUpTo(ElemBufs(k[1]), MaxSeq), b \in SeqsUpTo(ElemBufs(k[2]), MaxSeq)}
       ELSE IF Len(k) = 1 THEN {<<a>> : a \in Bufs(k[1])}
       ELSE {<<a, b>> : a \in Bufs(k[1]), b \in Bufs(k[2])}

\* ------------------------------------------------- the pairing pipeline
PairingFamilies == {"bls12_381", "bw6_761"}
G1Of(f) == IF f = "bls12_381" THEN BlsG1 ELSE Bw6G1
G2Of(f) == IF f = "bls12_381" THEN BlsG2 ELSE Bw6G2
multi_miller_loop(f, a_vec, b_vec) ==
    IF f = "bls12_381" THEN bls12_381_multi_miller_loop(a_vec, b_vec)
    ELSE bw6_761_multi_miller_loop(a_vec, b_vec)
final_exponentiation(f, target) ==
    IF f = "bls12_381" THEN bls12_381_final_exponentiation(target)
    ELSE bw6_761_final_exponentiation(target)

Idle == [stage |-> "idle"]
Pipeline(g1, g2) == [stage |-> "input", g1 |-> g1, g2 |-> g2, out |-> NotCalled]
ScalarMulG(curve, k) == PointEncode(PointOf(curve, "affine", k % FrModulus))

\* ------------------------------------------------------------- Init
Init ==
    /\ entry \in EntryPoints
    /\ args \in ArgsOf(entry)
    /\ outcome = NotCalled
    /\ fam = "none" /\ sa = 0 /\ sb = 0 /\ lhs = Idle /\ rhs = Idle

\* ------------------------------------------------------- the actions
\* One host call of each entry point on the arguments drawn in Init.
Call_bls12_381_multi_miller_loop ==
    /\ entry = "bls12_381_multi_miller_loop" /\ outcome = NotCalled
    /\ outcome' = bls12_381_multi_miller_loop(args[1], args[2])
    /\ UNCHANGED <<entry, args, fam, sa, sb, lhs, rhs>>

Call_bls12_381_final_exponentiation ==
    /\ entry = "bls12_381_final_exponentiation" /\ outcome = NotCalled
    /\ outcome' = bls12_381_final_exponentiation(args[1])
    /\ UNCHANGED <<entry, args, fam, sa, sb, lhs, rhs>>

Call_bls12_381_mul_projective_g2 ==
    /\ entry = "bls12_381_mul_projective_g2" /\ outcome = NotCalled
    /\ outcome' = bls12_381_mul_projective_g2(args[1], args[2])
    /\ UNCHANGED <<entry, args, fam, sa, sb, lhs, rhs>>

Call_bls12_381_mul_projective_g1 ==
    /\ entry = "bls12_381_mul_projective_g1" /\ outcome = NotCalled
    /\ outcome' = bls12_381_mul_projective_g1(args[1], args[2])
    /\ UNCHANGED <<entry, args, fam, sa, sb, lhs, rhs>>

Call_bls12_381_mul_affine_g1 ==
    /\ entry = "bls12_381_mul_affine_g1" /\ outcome = NotCalled
    /\ outcome' = bls12_381_mul_affine_g1(args[1], args[2])
    /\ UNCHANGED <<entry, args, fam, sa, sb, lhs, rhs>>

Call_bls12_381_mul_affine_g2 ==
    /\ entry = "bls12_381_mul_affine_g2" /\ outcome = NotCalled
    /\ outcome' = bls12_381_mul_affine_g2(args[1], args[2])
    /\ UNCHANGED <<entry, args, fam, sa, sb, lhs, rhs>>

Call_bls12_381_msm_g1 ==
    /\ entry = "bls12_381_msm_g1" /\ outcome = NotCalled
    /\ outcome' = bls12_381_msm_g1(args[1], args[2])
    /\ UNCHANGED <<entry, args, fam, sa, sb, lhs, rhs>>

Call_bls12_381_msm_g2 ==
    /\ entry = "bls12_381_msm_g2" /\ outcome = NotCalled
    /\ outcome' = bls12_381_msm_g2(args[1], args[2])
    /\ UNCHANGED <<entry, args, fam, sa, sb, lhs, rhs>>

Call_bw6_761_multi_miller_loop ==
    /\ entry = "bw6_761_multi_miller_loop" /\ outcome = NotCalled
    /\ outcome' = bw6_761_multi_miller_loop(args[1], args[2])
    /\ UNCHANGED <<entry, args, fam, sa, sb, lhs, rhs>>

Call_bw6_761_final_exponentiation ==
    /\ entry = "bw6_761_final_exponentiation" /\ outcome = NotCalled
    /\ outcome' = bw6_761_final_exponentiation(args[1])
    /\ UNCHANGED <<entry, args, fam, sa, sb, lhs, rhs>>

Call_bw6_761_mul_projective_g2 ==
    /\ entry = "bw6_761_mul_projective_g2" /\ outcome = NotCalled
    /\ outcome' = bw6_761_mul_projective_g2(args[1], args[2])
    /\ UNCHANGED <<entry, args, fam, sa, sb, lhs, rhs>>

Call_bw6_761_mul_projective_g1 ==
    /\ entry = "bw6_761_mul_projective_g1" /\ outcome = NotCalled
    /\ outcome' = bw6_761_mul_projective_g1(args[1], args[2])
    /\ UNCHANGED <<entry, args, fam, sa, sb, lhs, rhs>>

Call_bw6_761_mul_affine_g1 ==
    /\ entry = "bw6_761_mul_affine_g1" /\ outcome = NotCalled
    /\ outcome' = bw6_761_mul_affine_g1(args[1], args[2])
    /\ UNCHANGED <<entry, args, fam, sa, sb, lhs, rhs>>

Call_bw6_761_mul_affine_g2 ==
    /\ entry = "bw6_761_mul_affine_g2" /\ outcome = NotCalled
    /\ outcome' = bw6_761_mul_affine_g2(args[1], args[2])
    /\ UNCHANGED <<entry, args, fam, sa, sb, lhs, rhs>>

Call_bw6_761_msm_g1 ==
    /\ entry = "bw6_761_msm_g1" /\ outcome = NotCalled
    /\ outcome' = bw6_761_msm_g1(args[1], args[2])
    /\ UNCHANGED <<entry, args, fam, sa, sb, lhs, rhs>>

Call_bw6_761_msm_g2 ==
    /\ entry = "bw6_761_msm_g2" /\ outcome = NotCalled
    /\ outcome' = bw6_761_msm_g2(args[1], args[2])
    /\ UNCHANGED <<entry, args, fam, sa, sb, lhs, rhs>>

Call_ed_on_bls12_377_mul_projective ==
    /\ entry = "ed_on_bls12_377_mul_projective" /\ outcome = NotCalled
    /\ outcome' = ed_on_bls12_377_mul_projective(args[1], args[2])
    /\ UNCHANGED <<entry, args, fam, sa, sb, lhs, rhs>>

Call_ed_on_bls12_377_mul_affine ==
    /\ entry = "ed_on_bls12_377_mul_affine" /\ outcome = NotCalled
    /\ outcome' = ed_on_bls12_377_mul_affine(args[1], args[2])
    /\ UNCHANGED <<entry, args, fam, sa, sb, lhs, rhs>>

Call_ed_on_bls12_377_msm ==
    /\ entry = "ed_on_bls12_377_msm" /\ outcome = NotCalled
    /\ outcome' = ed_on_bls12_377_msm(args[1], args[2])
    /\ UNCHANGED <<entry, args, fam, sa, sb, lhs, rhs>>

Call_ed_on_bls12_381_sw_mul_projective ==
    /\ entry = "ed_on_bls12_381_sw_mul_projective" /\ outcome = NotCalled
    /\ outcome' = ed_on_bls12_381_sw_mul_projective(args[1], args[2])
    /\ UNCHANGED <<entry, args, fam, sa, sb, lhs, rhs>>

Call_ed_on_bls12_381_sw_mul_affine ==
    /\ entry = "ed_on_bls12_381_sw_mul_affine" /\ outcome = NotCalled
    /\ outcome' = ed_on_bls12_381_sw_mul_affine(args[1], args[2])
    /\ UNCHANGED <<entry, args, fam, sa, sb, lhs, rhs>>

Call_ed_on_bls12_381_te_mul_projective ==
    /\ entry = "ed_on_bls12_381_te_mul_projective" /\ outcome = NotCalled
    /\ outcome' = ed_on_bls12_381_te_mul_projective(args[1], args[2])
    /\ UNCHANGED <<entry, args, fam, sa, sb, lhs, rhs>>

Call_ed_on_bls12_381_te_mul_affine ==
    /\ entry = "ed_on_bls12_381_te_mul_affine" /\ outcome = NotCalled
    /\ outcome' = ed_on_bls12_381_te_mul_affine(args[1], args[2])
    /\ UNCHANGED <<entry, args, fam, sa, sb, lhs, rhs>>

Call_ed_on_bls12_381_te_msm ==
    /\ entry = "ed_on_bls12_381_te_msm" /\ outcome = NotCalled
    /\ outcome' = ed_on_bls12_381_te_msm(args[1], args[2])
    /\ UNCHANGED <<entry, args, fam, sa, sb, lhs, rhs>>

Call_ed_on_bls12_381_sw_msm ==
    /\ entry = "ed_on_bls12_381_sw_msm" /\ outcome = NotCalled
    /\ outcome' = ed_on_bls12_381_sw_msm(args[1], args[2])
    /\ UNCHANGED <<entry, args, fam, sa, sb, lhs, rhs>>

Next ==
    \/ Call_bls12_381_multi_miller_loop
    \/ Call_bls12_381_final_exponentiation
    \/ Call_bls12_381_mul_projective_g2
    \/ Call_bls12_381_mul_projective_g1
    \/ Call_bls12_381_mul_affine_g1
    \/ Call_bls12_381_mul_affine_g2
    \/ Call_bls12_381_msm_g1
    \/ Call_bls12_381_msm_g2
    \/ Call_bw6_761_multi_miller_loop
    \/ Call_bw6_761_final_exponentiation
    \/ Call_bw6_761_mul_projective_g2
    \/ Call_bw6_761_mul_projective_g1
    \/ Call_bw6_761_mul_affine_g1
    \/ Call_bw6_761_mul_affine_g2
    \/ Call_bw6_761_msm_g1
    \/ Call_bw6_761_msm_g2
    \/ Call_ed_on_bls12_377_mul_projective
    \/ Call_ed_on_bls12_377_mul_affine
    \/ Call_ed_on_bls12_377_msm
    \/ Call_ed_on_bls12_381_sw_mul_projective
    \/ Call_ed_on_bls12_381_sw_mul_affine
    \/ Call_ed_on_bls12_381_te_mul_projective
    \/ Call_ed_on_bls12_381_te_mul_affine
    \/ Call_ed_on_bls12_381_te_msm
    \/ Call_ed_on_bls12_381_sw_msm

Spec == Init /\ [][Next]_vars

\* The two-stage pairing e(a*G1, b*G2) against e(G1, (a*b)*G2): each side is a
\* multi_miller_loop call whose output buffer is passed to
\* final_exponentiation.
InitPairing ==
    /\ entry = "none" /\ args = <<>> /\ outcome = NotCalled
    /\ fam \in PairingFamilies
    /\ sa \in 0..(FrModulus - 1) /\ sb \in 0..(FrModulus - 1)
    /\ lhs = Pipeline(ScalarMulG(G1Of(fam), sa), ScalarMulG(G2Of(fam), sb))
    /\ rhs = Pipeline(ScalarMulG(G1Of(fam), 1), ScalarMulG(G2Of(fam), sa * sb))

MillerLoopStage(p) ==
    [p EXCEPT !.stage = "looped", !.out = multi_miller_loop(fam, <<p.g1>>, <<p.g2>>)]
FinalExpStage(p) ==
    [p EXCEPT !.stage = "done", !.out = final_exponentiation(fam, p.out.buf)]

LhsMillerLoop ==
    /\ lhs.stage = "input" /\ lhs' = MillerLoopStage(lhs)
    /\ UNCHANGED <<entry, args, outcome, fam, sa, sb, rhs>>
RhsMillerLoop ==
    /\ rhs.stage = "input" /\ rhs' = MillerLoopStage(rhs)
    /\ UNCHANGED <<entry, args, outcome, fam, sa, sb, lhs>>
LhsFinalExp ==
    /\ lhs.stage = "looped" /\ lhs.out.kind = "ok" /\ lhs' = FinalExpStage(lhs)
    /\ UNCHANGED <<entry, args, outcome, fam, sa, sb, rhs>>
RhsFinalExp ==
    /\ rhs.stage = "looped" /\ rhs.out.kind = "ok" /\ rhs' = FinalExpStage(rhs)
    /\ UNCHANGED <<entry, args, outcome, fam, sa, sb, lhs>>

NextPairing == LhsMillerLoop \/ RhsMillerLoop \/ LhsFinalExp \/ RhsFinalExp

SpecPairing == InitPairing /\ [][NextPairing]_vars

\* ------------------------------------------- the reference arithmetic
\* The arithmetic the entry points are specified against: the group of the
\* scaled curve is Z_FrModulus, k standing for k*G.
Done == outcome # NotCalled
Op == Sig(entry).op
Kinds == Sig(entry).kinds
CurveOf(e) == Sig(e).kinds[1].curve

LogOf(p) == CHOOSE k \in 0..(FrModulus - 1) : PointOf(p.curve, p.rep, k) = p
ScalarMulRef(p, s) == PointOf(p.curve, "projective", (LogOf(p) * s) % FrModulus)
AddRef(p, q) == PointOf(p.curve, "projective", (LogOf(p) + LogOf(q)) % FrModulus)
\* The integer a decoded Vec<u64> stands for (little-endian limbs).
RECURSIVE LimbsValue(_)
LimbsValue(l) ==
    IF l = <<>> THEN 0 ELSE Head(l) + (Radix ^ LimbBytes) * LimbsValue(Tail(l))

\* What argument i of a call is made of: its buffer, or its sequence's elements.
Buffers(e, a, i) == IF Batched(e) THEN {a[i][j] : j \in DOMAIN a[i]} ELSE {a[i]}

DecodeAs(k, b) ==
    CASE k.k = "point" -> PointDecode(k.curve, "affine", k.validate, b)
      [] k.k = "fr" -> FrDecode(b)
      [] k.k = "vec" -> VecU64Decode(b)
      [] k.k = "target" -> TargetDecode(k.field, b)
ArgDecodes(e, a, i) == \A b \in Buffers(e, a, i) : DecodeAs(Sig(e).kinds[i], b).ok
AllDecode(e, a) == \A i \in DOMAIN a : ArgDecodes(e, a, i)
OnCurveArg(e, a, i) ==
    \A b \in Buffers(e, a, i) : IsOnCurve(DecodeAs(Sig(e).kinds[i], b).val)

\* The fixed width of a buffer of kind k (a Vec<u64> has none: its length
\* prefix gives it).
HasFixedWidth(k) == k.k # "vec"
FixedWidth(k) ==
    CASE k.k = "point" -> PointWidth(k.curve)
      [] k.k = "fr" -> FieldBytes
      [] k.k = "target" -> ExtWidth(k.field.deg)

\* ---------------------------------------------------------------- C1
\* C1: in every entry point, when an input buffer (or an element of an input
\* sequence) fails to decode, the call returns a typed DecodeError to its
\* caller and ends in no other way.
C1_DecodeFailureIsTypedError ==
    (Done /\ ~AllDecode(entry, args))
        => (outcome.kind = "error" /\ outcome.err = "DecodeError")

\* ---------------------------------------------------------------- C2
\* C2: msm([P1, P2], [s1, s2]) returns the encoding of s1*P1 + s2*P2.
C2_MsmIsSumOfProducts ==
    (Done /\ Op = "msm" /\ Len(args[1]) = 2 /\ Len(args[2]) = 2
          /\ AllDecode(entry, args) /\ OnCurveArg(entry, args, 1))
        => LET P(i) == DecodeAs(Kinds[1], args[1][i]).val
               s(i) == DecodeAs(Kinds[2], args[2][i]).val
           IN /\ outcome.kind = "ok"
              /\ outcome.buf = PointEncode(AddRef(ScalarMulRef(P(1), s(1)),
                                                  ScalarMulRef(P(2), s(2))))

\* ---------------------------------------------------------------- C3
\* C3: every scalar-multiplication entry point, called on a well-formed base
\* point and the zero scalar, returns the encoding of the group identity.
C3_ZeroScalarGivesIdentity ==
    (Done /\ Op = "mul" /\ AllDecode(entry, args) /\ OnCurveArg(entry, args, 1)
          /\ LimbsValue(VecU64Decode(args[2]).val) = 0)
        => /\ outcome.kind = "ok"
           /\ outcome.buf = PointEncode(Identity(CurveOf(entry), "projective"))

\* ---------------------------------------------------------------- C4
\* C4: on two empty sequences every msm entry point returns the encoding of
\* the group identity and multi_miller_loop the encoding of the target
\* field's one.
C4_EmptyInputGivesIdentity ==
    (Done /\ Batched(entry) /\ args = << <<>>, <<>> >>)
        => /\ outcome.kind = "ok"
           /\ Op = "msm" => outcome.buf = PointEncode(Identity(CurveOf(entry), "projective"))
           /\ Op = "mml" => outcome.buf =
                  TargetEncode(TargetOne(IF entry = "bls12_381_multi_miller_loop"
                                         THEN BlsFq12 ELSE Bw6Fq6))

\* ---------------------------------------------------------------- C5
\* C5: for the pairing families and all scalars a, b, the two-stage pairing
\* of (a*G1, b*G2) and that of (G1, (a*b)*G2) both return, and return the same
\* buffer.
PipelineEnded(p) == p.stage = "done" \/ (p.stage = "looped" /\ p.out.kind = "panic")
WrongLength(e, a) ==
    \E i \in DOMAIN a : /\ HasFixedWidth(Sig(e).kinds[i])
                        /\ \E b \in Buffers(e, a, i) : Len(b) # FixedWidth(Sig(e).kinds[i])
C6_WrongLengthIsRejected ==
    (Done /\ WrongLength(entry, args)) => outcome.kind # "ok"

\* C6 (amended): a buffer shorter than the fixed width of its kind makes the
\* call fail without a result; a longer buffer is not rejected: only its first
\* fixed-width bytes are read, so the call ends exactly as it does on the
\* arguments cut to their fixed widths.
TooShort(e, a) ==
    \E i \in DOMAIN a : /\ HasFixedWidth(Sig(e).kinds[i])
                        /\ \E b \in Buffers(e, a, i) : Len(b) < FixedWidth(Sig(e).kinds[i])
TooLong(e, a) ==
    \E i \in DOMAIN a : /\ HasFixedWidth(Sig(e).kinds[i])
                        /\ \E b \in Buffers(e, a, i) : Len(b) > FixedWidth(Sig(e).kinds[i])
CutBuf(k, b) ==
    IF HasFixedWidth(k) /\ Len(b) > FixedWidth(k) THEN Take(b, FixedWidth(k)) ELSE b
CutArgs(e, a) ==
    [i \in DOMAIN a |->
        IF Batched(e) THEN [j \in DOMAIN a[i] |-> CutBuf(Sig(e).kinds[i], a[i][j])]
        ELSE CutBuf(Sig(e).kinds[i], a[i])]
C6_ShortRejectedLongCut ==
    Done => /\ TooShort(entry, args) => outcome.kind # "ok"
            /\ outcome = Apply(entry, CutArgs(entry, args))
C6_Witness ==
    /\ Done /\ TooLong(entry, args) /\ ~TooShort(entry, args)
    /\ \A i \in DOMAIN args : Buffers(entry, args, i) # {}
    /\ outcome.kind = "ok"

\* ---------------------------------------------------------------- C7
\* C7: a batched operation called on sequences of different lengths fails and
\* returns no result.
C7_LengthMismatchIsRejected ==
    (Done /\ Batched(entry) /\ Len(args[1]) # Len(args[2])) => outcome.kind # "ok"

C9_RawScalarAlwaysDecodes ==
    (Done /\ Op \in {"mul", "msm"} /\ ArgDecodes(entry, args, 1)
          /\ \A b \in Buffers(entry, args, 2) : Len(b) = FieldBytes)
        => outcome.kind = "ok"

\* C9 (amended): a scalar-multiplication entry point reads its scalar as a
\* u64 length followed by that many little-endian u64 limbs, of any value, and
\* fails only when the buffer is shorter than that; an msm entry point reads
\* each scalar as one fixed-width little-endian scalar-field element and fails
\* when the buffer is shorter than the width or its value is not below the
\* scalar-field order.
VecWellFormed(b) ==
    /\ Len(b) >= LimbBytes
    /\ Len(b) >= LimbBytes * (1 + LEValue(Take(b, LimbBytes)))
FrWellFormed(b) ==
    /\ Len(b) >= FieldBytes
    /\ LEValue(Take(b, FieldBytes)) < FrModulus
C9_ScalarDecoding ==
    (Done /\ Op \in {"mul", "msm"} /\ ArgDecodes(entry, args, 1))
        => /\ Op = "mul" => (outcome.kind = "ok" <=> VecWellFormed(args[2]))
           /\ Op = "msm" => (outcome.kind = "ok" <=>
                                \A b \in Buffers(entry, args, 2) : FrWellFormed(b))
C9_Witness ==
    /\ Done /\ Op = "msm" /\ ArgDecodes(entry, args, 1)
    /\ Len(args[1]) = 2 /\ Len(args[2]) = 2
    /\ \A b \in Buffers(entry, args, 2) : Len(b) = FieldBytes
    /\ \E b \in Buffers(entry, args, 2) : LEValue(b) >= FrModulus
    /\ outcome = Panic("InvalidData")
====
